---- MODULE Spec2Model ----
(***************************************************************************)
(* Model of src/src/lib/audio-streamer.ts.                                 *)
(*                                                                         *)
(* AudioStreamer: PCM16 chunks are decoded, sliced into frames of          *)
(* bufferSize samples, queued, and scheduled on the audio context ahead    *)
(* of its clock.  All callbacks (addPCM16, timer wakes, poll ticks,        *)
(* source "ended" events, stop, resume, complete) run to completion, so    *)
(* each is one action.                                                     *)
(*                                                                         *)
(* Time is counted in sample periods of the 24 kHz stream (1 s = 24000),   *)
(* so that audioBuffer.duration = length / sampleRate is the frame's       *)
(* length.  A sample is identified by its index in the submitted stream;   *)
(* a frame is the range [first, first + len) of those indices.             *)
(***************************************************************************)
EXTENDS Integers, Sequences, FiniteSets, TLC

\* ---------------------------------------------------------------- bounds
MaxCalls == 4           \* calls of addPCM16, complete, stop and resume
MaxClock == 14400       \* wall-clock horizon (0.6 s: a full frame started
                        \* at 0.1 s has ended, ending at 0.42 s)

\* chunk sizes in bytes offered to addPCM16 (a third of a frame, one frame,
\* two frames), and the steps in which time is observed to pass (0.2 s)
ChunkBytes == {5120, 15360, 30720}
TickSteps  == {4800}

\* ------------------------------------------------------- program constants
sampleRate          == 24000
bufferSize          == 7680
initialBufferTime   == sampleRate \div 10      \* 0.1 s
SCHEDULE_AHEAD_TIME == sampleRate \div 5       \* 0.2 s
WakeMargin          == sampleRate \div 20      \* the 50 ms of nextCheckTime - 50
PollInterval        == sampleRate \div 10      \* setInterval(..., 100)
GainRampTime        == sampleRate \div 10      \* currentTime + 0.1
GainSwapDelay       == sampleRate \div 5       \* setTimeout(..., 200)

VARIABLES
    audioQueue,             \* Seq of frames [first, len]
    isPlaying,
    processingBuffer,       \* [first, len], len = 0 when empty
    scheduledTime,
    isStreamComplete,
    checkInterval,          \* 0 = null, 1 = interval handle
    endOfQueueAudioSource,  \* NoSource = null, else the id of a source
    gainNode,               \* identity of the current gain node
    gainEvent,              \* last automation event put on the current gain
                            \* node; "after" is its time minus the clock of the call
    sources,                \* the started sources that have not ended yet
    timers,                 \* due times of pending setTimeout(scheduleNextBuffer)
    gainTimers,             \* due times of pending gain-node swaps armed by stop()
    intervalDue,            \* next due time of the poll interval (0 when none)
    disconnectedGains,      \* gain nodes that were disconnected
    ctxState,               \* context.state
    resumePending,          \* resume() calls awaiting context.resume()
    resumeOutcome,          \* how the promise of the last resume() stands:
                            \* "none", "pending", "resolved" or "rejected"
    currentTime,            \* context.currentTime
    now,                    \* wall clock driving setTimeout / setInterval
    submitted,              \* samples decoded so far (identity of the next sample)
    notifications,          \* log of onComplete() invocations
    discarded,              \* frames thrown away by stop()
    lastStarted,            \* id of the source started last (NoSource: none yet)
    calls,                  \* number of calls of each public method
    \* -- the frame buffer followed byte by byte (specification SpecChunks)
    cbTotal,                \* length in bytes of the PCM stream to submit
    cbOffset,               \* bytes of the stream submitted so far
    cbBuffer,               \* processingBuffer, as runs of samples
    cbQueue,                \* audioQueue, each frame as runs of samples
    cbScheduled,            \* samples of the frames started so far, in order
    cbComplete,             \* complete() was called
    cbChunks,               \* lengths of the chunks submitted so far
    \* -- MultimodalLiveClient (specification SpecClient)
    currentAudioBuffer,     \* base64 fragments of the current turn, each
                            \* [id, data]: id is the number of its message
    turns,                  \* the receive() calls that went into the delivery
                            \* branch of turn-complete, with their position
    clientLog,              \* events emitted and requests made, in order
    clientNow,              \* Date.now()
    received,               \* messages received so far
    \* -- createWavFromPcm (specification SpecWav)
    wavPcm,                 \* the payload handed to createWavFromPcm
    wavOut,                 \* what it returned (<<>>: not called yet)
    \* -- addWorklet (specification SpecWorklet)
    contextRegistered,      \* registeredWorklets has an entry for the context
    workletsRecord,         \* that entry: name -> [present, handlers, node]
    workletPending,         \* addWorklet calls awaiting addModule
    nodesCreated,           \* name -> number of AudioWorkletNodes created
    registered,             \* the registrations made: [name, handler, awaiting]
    workletCalls            \* number of addWorklet calls

streamer == <<audioQueue, isPlaying, processingBuffer, scheduledTime,
              isStreamComplete, checkInterval, endOfQueueAudioSource,
              sources, timers, intervalDue, lastStarted>>

streamerVars ==
    <<audioQueue, isPlaying, processingBuffer, scheduledTime,
      isStreamComplete, checkInterval, endOfQueueAudioSource, gainNode,
      gainEvent, sources, timers, gainTimers, intervalDue,
      disconnectedGains, ctxState, resumePending, resumeOutcome,
      currentTime, now, submitted, notifications, discarded, lastStarted,
      calls>>

chunkVars == <<cbTotal, cbOffset, cbBuffer, cbQueue, cbScheduled, cbComplete,
               cbChunks>>

clientVars == <<currentAudioBuffer, turns, clientLog, clientNow, received>>

wavVars == <<wavPcm, wavOut>>

workletVars == <<contextRegistered, workletsRecord, workletPending,
                 nodesCreated, registered, workletCalls>>

\* what the actions of the streamer leave alone
otherThanStreamer == <<chunkVars, clientVars, wavVars, workletVars>>

\* what the actions of the byte-level frame buffer leave alone
otherThanChunks == <<streamerVars, clientVars, wavVars, workletVars>>

\* what the actions of the client leave alone
otherThanClient == <<streamerVars, chunkVars, wavVars, workletVars>>

\* what createWavFromPcm leaves alone
otherThanWav == <<streamerVars, chunkVars, clientVars, workletVars>>

\* what addWorklet leaves alone
otherThanWorklet == <<streamerVars, chunkVars, clientVars, wavVars>>

vars == <<streamerVars, chunkVars, clientVars, wavVars, workletVars>>

\* ---------------------------------------------------------------- helpers
Max(a, b) == IF a >= b THEN a ELSE b

RECURSIVE InsertSorted(_, _)
InsertSorted(s, x) ==
    IF s = <<>> THEN <<x>>
    ELSE IF x <= Head(s) THEN <<x>> \o s
    ELSE <<Head(s)>> \o InsertSorted(Tail(s), x)

\* calls of the public methods made so far
Calls == calls.add + calls.complete + calls.stop + calls.resume

EmptyBuffer == [first |-> 0, len |-> 0]

\* endOfQueueAudioSource = null.  A source is identified by the index of the
\* first sample of the frame it plays.
NoSource == -1

\* The fields of the streamer that scheduleNextBuffer reads and writes.
Self ==
    [audioQueue |-> audioQueue, isPlaying |-> isPlaying,
     processingBuffer |-> processingBuffer, scheduledTime |-> scheduledTime,
     isStreamComplete |-> isStreamComplete, checkInterval |-> checkInterval,
     endOfQueueAudioSource |-> endOfQueueAudioSource, sources |-> sources,
     timers |-> timers, intervalDue |-> intervalDue,
     lastStarted |-> lastStarted]

Assign(s) ==
    /\ audioQueue' = s.audioQueue
    /\ isPlaying' = s.isPlaying
    /\ processingBuffer' = s.processingBuffer
    /\ scheduledTime' = s.scheduledTime
    /\ isStreamComplete' = s.isStreamComplete
    /\ checkInterval' = s.checkInterval
    /\ endOfQueueAudioSource' = s.endOfQueueAudioSource
    /\ sources' = s.sources
    /\ timers' = s.timers
    /\ intervalDue' = s.intervalDue
    /\ lastStarted' = s.lastStarted

\* ---------------------------------------------------------------- addPCM16
\* (variant) one sample per byte
DecodedLengthBytes(bytes) == bytes

\* new Float32Array(chunk.length / 2): one sample per two bytes
DecodedLength(bytes) == bytes \div 2

\* processingBuffer followed by the newly decoded samples
Concat(pb, n) ==
    IF pb.len = 0 THEN [first |-> submitted, len |-> n]
    ELSE [first |-> pb.first, len |-> pb.len + n]

\* (variant) the frame is put at the head of the queue
QueuePushFront(q, frame) == <<frame>> \o q

\* audioQueue.push(buffer)
QueuePush(q, frame) == Append(q, frame)

\* (variant) an if in place of the while: at most one frame is sliced off
SliceOnce(q, pb) ==
    IF pb.len >= bufferSize
    THEN [audioQueue |-> QueuePush(q, [first |-> pb.first, len |-> bufferSize]),
          processingBuffer |->
              IF pb.len = bufferSize THEN EmptyBuffer
              ELSE [first |-> pb.first + bufferSize,
                    len |-> pb.len - bufferSize]]
    ELSE [audioQueue |-> q, processingBuffer |-> pb]

\* the while loop slicing full frames off the processing buffer
RECURSIVE SliceFrames(_, _)
SliceFrames(q, pb) ==
    IF pb.len >= bufferSize
    THEN SliceFrames(
            QueuePush(q, [first |-> pb.first, len |-> bufferSize]),
            IF pb.len = bufferSize THEN EmptyBuffer
            ELSE [first |-> pb.first + bufferSize, len |-> pb.len - bufferSize])
    ELSE [audioQueue |-> q, processingBuffer |-> pb]

\* ------------------------------------------------------ scheduleNextBuffer
\* (variant) the cursor is used as it is
StartTimeUnclamped(cursor, clock) == cursor

\* Math.max(this.scheduledTime, this.context.currentTime)
StartTime(cursor, clock) == Max(cursor, clock)

\* (variant) the loop runs as long as the queue is not empty
WithinLookaheadUnbounded(q, cursor, clock) == Len(q) > 0

\* the loop condition

WithinLookahead(q, cursor, clock) ==
    Len(q) > 0 /\ cursor < clock + SCHEDULE_AHEAD_TIME

\* (variant) this.scheduledTime += audioBuffer.duration
AdvanceCursorBlind(cursor, start, dur) == cursor + dur

\* this.scheduledTime = startTime + audioBuffer.duration
AdvanceCursor(cursor, start, dur) == start + dur

\* The source created and started for one dequeued frame.  Besides what the
\* program keeps (buffer, start time, onended handler, gain node) the record
\* notes the circumstances of the call: the cursor read and written, the
\* clock, the source started before it and the number of stop() calls so far.
NewSource(frame, cursor, last, prev) ==
    LET start == StartTime(cursor, currentTime)
    IN [id |-> frame.first, len |-> frame.len,
        start |-> start, dur |-> frame.len,
        onended |-> last, gain |-> gainNode,
        cursor |-> cursor, next |-> AdvanceCursor(cursor, start, frame.len),
        clock |-> currentTime, prev |-> prev, epoch |-> calls.stop]

\* this.endOfQueueAudioSource.onended = null
ClearOnended(srcs, eoq) ==
    {IF r.id = eoq THEN [r EXCEPT !.onended = FALSE] ELSE r : r \in srcs}

RECURSIVE ScheduleLoop(_)
ScheduleLoop(s) ==
    IF WithinLookahead(s.audioQueue, s.scheduledTime, currentTime)
    THEN LET audioData == Head(s.audioQueue)
             rest      == Tail(s.audioQueue)
             last      == Len(rest) = 0
             eoq       == s.endOfQueueAudioSource
             src       == NewSource(audioData, s.scheduledTime, last,
                                    s.lastStarted)
             cleared   == IF last /\ eoq # NoSource
                          THEN ClearOnended(s.sources, eoq)
                          ELSE s.sources
         IN ScheduleLoop(
              [s EXCEPT !.audioQueue = rest,
                        !.sources = cleared \cup {src},
                        !.endOfQueueAudioSource =
                            IF last THEN src.id ELSE eoq,
                        !.lastStarted = src.id,
                        !.scheduledTime = src.next])
    ELSE s

\* Math.max(0, nextCheckTime - 50), as a due time
WakeDue(cursor, clock) == now + Max(0, (cursor - clock) - WakeMargin)

\* (variant) no one-shot wake is armed when frames remain
RearmNoWake(s) ==
    IF Len(s.audioQueue) = 0 /\ s.processingBuffer.len = 0
    THEN IF s.isStreamComplete
         THEN [s EXCEPT !.isPlaying = FALSE, !.checkInterval = 0,
                        !.intervalDue = 0]
         ELSE IF s.checkInterval = 0
              THEN [s EXCEPT !.checkInterval = 1,
                             !.intervalDue = now + PollInterval]
              ELSE s
    ELSE s

\* the branch after the loop
Rearm(s) ==
    IF Len(s.audioQueue) = 0 /\ s.processingBuffer.len = 0
    THEN IF s.isStreamComplete
         THEN [s EXCEPT !.isPlaying = FALSE, !.checkInterval = 0,
                        !.intervalDue = 0]
         ELSE IF s.checkInterval = 0
              THEN [s EXCEPT !.checkInterval = 1,
                             !.intervalDue = now + PollInterval]
              ELSE s
    ELSE [s EXCEPT !.timers =
              InsertSorted(s.timers, WakeDue(s.scheduledTime, currentTime))]

\* (variant) a complete stream is marked not playing once the queue is empty,
\* whatever the processing buffer holds
scheduleNextBufferQueueOnly(s) ==
    LET r == Rearm(ScheduleLoop(s))
    IN IF Len(r.audioQueue) = 0 /\ r.isStreamComplete
       THEN [r EXCEPT !.isPlaying = FALSE]
       ELSE r

\* the scheduler pass: the loop, then the re-arm branch
scheduleNextBuffer(s) == Rearm(ScheduleLoop(s))

\* ----------------------------------------------------------------- actions
\* the frame buffer of SpecChunks, not in use
ChunksIdle ==
    /\ cbTotal = 0
    /\ cbOffset = 0
    /\ cbBuffer = <<>>
    /\ cbQueue = <<>>
    /\ cbScheduled = <<>>
    /\ cbComplete = FALSE
    /\ cbChunks = <<>>

\* the names taps are registered under
WorkletNames == {"tapA", "tapB"}

\* the client after construction, no message received
ClientIdle ==
    /\ currentAudioBuffer = <<>>
    /\ turns = <<>>
    /\ clientLog = <<>>
    /\ clientNow = 0
    /\ received = 0

\* createWavFromPcm not in use
WavIdle ==
    /\ wavPcm = <<>>
    /\ wavOut = <<>>

\* no tap registered
WorkletIdle ==
    /\ contextRegistered = FALSE
    /\ workletsRecord = [n \in WorkletNames |->
                            [present |-> FALSE, handlers |-> <<>>, node |-> 0]]
    /\ workletPending = {}
    /\ nodesCreated = [n \in WorkletNames |-> 0]
    /\ registered = {}
    /\ workletCalls = 0

\* the streamer after construction
StreamerInit ==
    /\ audioQueue = <<>>
    /\ isPlaying = FALSE
    /\ processingBuffer = EmptyBuffer
    /\ scheduledTime = 0
    /\ isStreamComplete = FALSE
    /\ checkInterval = 0
    /\ endOfQueueAudioSource = NoSource
    /\ gainNode = 1
    /\ gainEvent = [type |-> "none", value |-> 1, after |-> 0]
    /\ sources = {}
    /\ timers = <<>>
    /\ gainTimers = <<>>
    /\ intervalDue = 0
    /\ disconnectedGains = {}
    /\ ctxState \in {"running", "suspended"}
    /\ resumePending = 0
    /\ resumeOutcome = "none"
    /\ currentTime = 0
    /\ now = 0
    /\ submitted = 0
    /\ notifications = <<>>
    /\ discarded = {}
    /\ lastStarted = NoSource
    /\ calls = [add |-> 0, complete |-> 0, stop |-> 0, resume |-> 0]

Init == StreamerInit /\ ChunksIdle /\ ClientIdle /\ WavIdle /\ WorkletIdle

\* this.onComplete()
\* this.onComplete(): the invocation is logged with the state it happens in
\* (queue length, completion flag, samples submitted so far) and, for an
\* onended handler, whether stop() was called since its source was started
Notify(via, queue, flag, stopped) ==
    notifications' = Append(notifications,
        [via |-> via, queueLen |-> Len(queue), complete |-> flag,
         stopped |-> stopped, submitted |-> submitted])

addPCM16(bytes) ==
    /\ Calls < MaxCalls
    /\ LET n      == DecodedLength(bytes)
           sliced == SliceFrames(audioQueue, Concat(processingBuffer, n))
           s1     == [Self EXCEPT !.audioQueue = sliced.audioQueue,
                                  !.processingBuffer = sliced.processingBuffer]
       IN /\ IF ~isPlaying
             THEN Assign(scheduleNextBuffer(
                    [s1 EXCEPT !.isPlaying = TRUE,
                               !.scheduledTime = currentTime + initialBufferTime]))
             ELSE Assign(s1)
          /\ submitted' = submitted + n
    /\ calls' = [calls EXCEPT !.add = @ + 1]
    /\ UNCHANGED otherThanStreamer
    /\ UNCHANGED <<gainNode, gainEvent, gainTimers, disconnectedGains,
                   ctxState, resumePending, resumeOutcome,
                   currentTime, now, notifications,
                   discarded>>

\* setTimeout(() => this.scheduleNextBuffer(), ...) fires
TimerWake ==
    /\ timers # <<>>
    /\ Head(timers) <= now
    /\ Assign(scheduleNextBuffer([Self EXCEPT !.timers = Tail(timers)]))
    /\ UNCHANGED otherThanStreamer
    /\ UNCHANGED <<gainNode, gainEvent, gainTimers, disconnectedGains,
                   ctxState, resumePending, resumeOutcome,
                   currentTime, now, submitted,
                   notifications, discarded, calls>>

\* the setInterval callback
PollTick ==
    /\ checkInterval # 0
    /\ intervalDue <= now
    /\ LET s1 == [Self EXCEPT !.intervalDue = now + PollInterval]
       IN IF Len(audioQueue) > 0 \/ processingBuffer.len >= bufferSize
          THEN Assign(scheduleNextBuffer(s1))
          ELSE Assign(s1)
    /\ UNCHANGED otherThanStreamer
    /\ UNCHANGED <<gainNode, gainEvent, gainTimers, disconnectedGains,
                   ctxState, resumePending, resumeOutcome,
                   currentTime, now, submitted,
                   notifications, discarded, calls>>

\* a started source reaches the end of its buffer: its onended handler runs
SourceEnded(src) ==
    /\ currentTime >= src.start + src.dur
    /\ sources' = sources \ {src}
    /\ IF src.onended /\ Len(audioQueue) = 0 /\ endOfQueueAudioSource = src.id
       THEN /\ endOfQueueAudioSource' = NoSource
            /\ Notify("onended", audioQueue, isStreamComplete,
                      src.epoch < calls.stop)
       ELSE UNCHANGED <<endOfQueueAudioSource, notifications>>
    /\ UNCHANGED otherThanStreamer
    /\ UNCHANGED <<audioQueue, isPlaying, processingBuffer, scheduledTime,
                   isStreamComplete, checkInterval, gainNode, gainEvent,
                   timers, gainTimers, intervalDue, disconnectedGains,
                   ctxState, resumePending, resumeOutcome,
                   currentTime, now, submitted,
                   discarded, lastStarted, calls>>

\* (variant) the cursor is reset as resume() resets it
StopCursorDelayed(clock) == clock + initialBufferTime

\* scheduledTime after stop()
StopCursor(clock) == clock

stop ==
    /\ Calls < MaxCalls
    /\ isPlaying' = FALSE
    /\ isStreamComplete' = TRUE
    /\ audioQueue' = <<>>
    /\ processingBuffer' = EmptyBuffer
    /\ scheduledTime' = StopCursor(currentTime)
    /\ checkInterval' = 0
    /\ intervalDue' = 0
    /\ gainEvent' = [type |-> "linearRamp", value |-> 0,
                     after |-> GainRampTime]
    /\ gainTimers' = InsertSorted(gainTimers, now + GainSwapDelay)
    /\ discarded' = discarded \cup {audioQueue[i] : i \in DOMAIN audioQueue}
    /\ calls' = [calls EXCEPT !.stop = @ + 1]
    /\ UNCHANGED otherThanStreamer
    /\ UNCHANGED <<endOfQueueAudioSource, gainNode, sources, timers,
                   disconnectedGains, ctxState, resumePending, resumeOutcome,
                   currentTime,
                   now, submitted, notifications, lastStarted>>

\* the setTimeout callback armed by stop()
GainSwap ==
    /\ gainTimers # <<>>
    /\ Head(gainTimers) <= now
    /\ gainTimers' = Tail(gainTimers)
    /\ disconnectedGains' = disconnectedGains \cup {gainNode}
    /\ gainNode' = gainNode + 1
    /\ gainEvent' = [type |-> "none", value |-> 1, after |-> 0]
    /\ UNCHANGED otherThanStreamer
    /\ UNCHANGED <<streamer, ctxState, resumePending, resumeOutcome,
                   currentTime, now,
                   submitted, notifications, discarded, calls>>

\* (variant) the cursor is reset as stop() resets it
ResumeCursorNoDelay(clock) == clock

\* scheduledTime after resume()
ResumeCursor(clock) == clock + initialBufferTime

\* the statements of resume() after the await
ResumeBody ==
    /\ isStreamComplete' = FALSE
    /\ scheduledTime' = ResumeCursor(currentTime)
    /\ gainEvent' = [type |-> "setValue", value |-> 1, after |-> 0]

resume ==
    /\ Calls < MaxCalls
    /\ calls' = [calls EXCEPT !.resume = @ + 1]
    /\ IF ctxState = "suspended"
       THEN /\ resumePending' = resumePending + 1
            /\ resumeOutcome' = "pending"
            /\ UNCHANGED <<isStreamComplete, scheduledTime, gainEvent>>
       ELSE /\ ResumeBody
            /\ resumeOutcome' = "resolved"
            /\ UNCHANGED resumePending
    /\ UNCHANGED otherThanStreamer
    /\ UNCHANGED <<audioQueue, isPlaying, processingBuffer, checkInterval,
                   endOfQueueAudioSource, gainNode, sources, timers,
                   gainTimers, intervalDue, disconnectedGains, ctxState,
                   currentTime, now, submitted, notifications, discarded,
                   lastStarted>>

\* context.resume() resolves: the awaiting resume() calls run to their end
ResumeResolved ==
    /\ resumePending > 0
    /\ resumePending' = 0
    /\ resumeOutcome' = "resolved"
    /\ ctxState' = "running"
    /\ ResumeBody
    /\ UNCHANGED otherThanStreamer
    /\ UNCHANGED <<audioQueue, isPlaying, processingBuffer, checkInterval,
                   endOfQueueAudioSource, gainNode, sources, timers,
                   gainTimers, intervalDue, disconnectedGains, currentTime,
                   now, submitted, notifications, discarded, lastStarted,
                   calls>>

\* (variant) the statements after the await run although it threw
ResumeRejectedWithReset ==
    /\ resumePending > 0
    /\ resumePending' = 0
    /\ resumeOutcome' = "rejected"
    /\ ResumeBody
    /\ UNCHANGED otherThanStreamer
    /\ UNCHANGED <<audioQueue, isPlaying, processingBuffer, checkInterval,
                   endOfQueueAudioSource, gainNode, sources, timers,
                   gainTimers, intervalDue, disconnectedGains, ctxState,
                   currentTime, now, submitted, notifications, discarded,
                   lastStarted, calls>>

\* context.resume() rejects: the awaiting resume() calls throw at the await
\* and their promises are rejected
ResumeRejected ==
    /\ resumePending > 0
    /\ resumePending' = 0
    /\ resumeOutcome' = "rejected"
    /\ UNCHANGED otherThanStreamer
    /\ UNCHANGED <<streamer, gainNode, gainEvent, gainTimers,
                   disconnectedGains, ctxState, currentTime, now, submitted,
                   notifications, discarded, calls>>

complete ==
    /\ Calls < MaxCalls
    /\ calls' = [calls EXCEPT !.complete = @ + 1]
    /\ IF processingBuffer.len > 0
       THEN LET s1 == [Self EXCEPT
                         !.isStreamComplete = TRUE,
                         !.audioQueue = QueuePush(audioQueue, processingBuffer),
                         !.processingBuffer = EmptyBuffer]
            IN /\ Assign(IF isPlaying THEN scheduleNextBuffer(s1) ELSE s1)
               /\ UNCHANGED notifications
       ELSE /\ Assign([Self EXCEPT !.isStreamComplete = TRUE])
            /\ Notify("complete", audioQueue, TRUE, FALSE)
    /\ UNCHANGED otherThanStreamer
    /\ UNCHANGED <<gainNode, gainEvent, gainTimers, disconnectedGains,
                   ctxState, resumePending, resumeOutcome,
                   currentTime, now, submitted,
                   discarded>>

\* time passes; the audio clock advances only while the context is running
Tick(d) ==
    /\ now + d <= MaxClock
    /\ now' = now + d
    /\ currentTime' = IF ctxState = "running" THEN currentTime + d
                      ELSE currentTime
    /\ UNCHANGED otherThanStreamer
    /\ UNCHANGED <<streamer, gainNode, gainEvent, gainTimers,
                   disconnectedGains, ctxState, resumePending,
                   resumeOutcome, submitted,
                   notifications, discarded, calls>>

Next ==
    \/ \E bytes \in ChunkBytes : addPCM16(bytes)
    \/ TimerWake
    \/ PollTick
    \/ \E src \in sources : SourceEnded(src)
    \/ stop
    \/ GainSwap
    \/ resume
    \/ ResumeResolved
    \/ ResumeRejected
    \/ complete
    \/ \E d \in TickSteps : Tick(d)

Spec == Init /\ [][Next]_vars

TypeOK ==
    /\ isPlaying \in BOOLEAN
    /\ isStreamComplete \in BOOLEAN
    /\ checkInterval \in {0, 1}
    /\ processingBuffer.len < bufferSize
    /\ currentTime <= now

\* ------------------------------------------------------------------ claims
Last(s) == s[Len(s)]

\* a step that is a call of complete() / of stop()
CompleteStep == calls'.complete = calls.complete + 1
StopStep     == calls'.stop = calls.stop + 1

\* nothing is queued, buffered or still playing
Drained == audioQueue = <<>> /\ processingBuffer.len = 0 /\ sources = {}

\* C1: when complete() was called once and stop() never, then once the queue
\* and the processing buffer are empty and every started frame has finished
\* playing, onComplete has been invoked exactly once.
C1_CompletionExactlyOnce ==
    (calls.complete = 1 /\ calls.stop = 0 /\ Drained)
        => Len(notifications) = 1

\* C2: a call of complete() made after onComplete has fired, with the queue
\* and the processing buffer empty, nothing playing and no audio submitted
\* since, invokes no further onComplete.
C2_NoSecondCallback ==
    [][(/\ CompleteStep
        /\ calls.complete >= 1
        /\ notifications # <<>>
        /\ Last(notifications).submitted = submitted
        /\ Drained)
       => notifications' = notifications]_vars

\* C3: whenever onComplete is invoked the playback queue is empty: every frame
\* enqueued so far has been handed to the output device.
C3_QueueEmptyAtCompletion ==
    \A i \in DOMAIN notifications : notifications[i].queueLen = 0

\* C4: onComplete is never invoked while the stream is still open: at every
\* invocation the stream is marked complete.
C4_NoCompletionBeforeComplete ==
    \A i \in DOMAIN notifications : notifications[i].complete

\* C5: the onended handler of a frame started before a stop() never invokes
\* onComplete after that stop().
C5_StopDisconnectsCallbacks ==
    \A i \in DOMAIN notifications :
        ~(notifications[i].via = "onended" /\ notifications[i].stopped)

\* C6: right after stop() the queue and the processing buffer are empty and
\* the cursor equals the device clock, whatever the state before; and a frame
\* that stop() threw away is never started.
C6_StopClears ==
    /\ [][StopStep => /\ audioQueue' = <<>>
                      /\ processingBuffer'.len = 0
                      /\ scheduledTime' = currentTime']_vars
    /\ [](\A src \in sources : \A f \in discarded : src.id # f.first)

\* stop() threw queued frames away and a frame submitted later was started
C6_Witness ==
    /\ discarded # {}
    /\ scheduledTime > currentTime
    /\ \E src \in sources : src.epoch = calls.stop

\* C7: frames are started in the order they were enqueued (the order of their
\* samples in the stream), the partial frame flushed by complete() included:
\* each started frame was enqueued after the frame started before it.
C7_ScheduledInEnqueueOrder ==
    \A src \in sources : src.prev < src.id

\* a flushed partial frame was started after an earlier full frame
C7_Witness ==
    \E src \in sources :
        src.len < bufferSize /\ src.prev # NoSource /\ isStreamComplete

\* C8: every frame is started at max(cursor, currentClock), so never at a
\* time before the device clock of the moment it is scheduled.
C8_StartNeverInPast ==
    \A src \in sources :
        /\ src.start = (IF src.cursor >= src.clock THEN src.cursor
                        ELSE src.clock)
        /\ src.start >= src.clock

\* a frame was scheduled when the cursor had fallen behind the clock
C8_Witness ==
    \E src \in sources : src.cursor < src.clock /\ src.start = src.clock

\* C9 as stated: the cursor read when a frame is scheduled is at or after the
\* device clock.
C9_CursorReadNotBehindClock ==
    \A src \in sources : src.cursor >= src.clock

\* C9 amended: when a frame is scheduled the cursor read may be behind the
\* device clock (audio arrived after the scheduled audio ran out); the cursor
\* written back is then the clock plus the frame's duration, and in every case
\* the cursor written is after the device clock.
C9_CursorWrittenAheadOfClock ==
    \A src \in sources :
        /\ src.next > src.clock
        /\ src.cursor < src.clock => src.next = src.clock + src.dur

\* after an underrun a further frame was scheduled behind the clock
C9_Witness ==
    \E src \in sources : src.prev # NoSource /\ src.cursor < src.clock

\* C10: while the stream is playing the cursor never decreases.
C10_CursorMonotoneWhilePlaying ==
    [][(isPlaying /\ isPlaying') => scheduledTime' >= scheduledTime]_vars

\* ------------------------------------------- the frame buffer, byte by byte
\* SpecChunks follows one PCM stream of cbTotal bytes that is cut into chunks
\* at arbitrary byte offsets, submitted chunk by chunk and then completed.
\* A sample is identified by the offset in the stream of its first byte; a
\* run [at, n] is n samples read at byte offsets at, at + 2, ...  Sequences
\* of runs are kept merged, so that equal sample sequences are equal values.

\* lengths in bytes of the streams, and of the chunks offered besides "all
\* that is left": a third of a frame, one byte more, and a frame and a third
StreamBytes == {20480, 35840}
SplitBytes  == {5120, 5121, 20480}

RECURSIVE RunsLen(_)
RunsLen(rs) == IF rs = <<>> THEN 0 ELSE Head(rs).n + RunsLen(Tail(rs))

\* rs followed by the run r
AppendRun(rs, r) ==
    IF r.n = 0 THEN rs
    ELSE IF rs # <<>> /\ rs[Len(rs)].at + 2 * rs[Len(rs)].n = r.at
         THEN [rs EXCEPT ![Len(rs)].n = @ + r.n]
         ELSE Append(rs, r)

\* newBuffer.set(processingBuffer); newBuffer.set(float32Array, length)
RECURSIVE ConcatRuns(_, _)
ConcatRuns(a, b) ==
    IF b = <<>> THEN a ELSE ConcatRuns(AppendRun(a, Head(b)), Tail(b))

\* slice(0, k)
RECURSIVE TakeRuns(_, _)
TakeRuns(rs, k) ==
    IF k = 0 \/ rs = <<>> THEN <<>>
    ELSE IF Head(rs).n <= k
         THEN <<Head(rs)>> \o TakeRuns(Tail(rs), k - Head(rs).n)
         ELSE <<[at |-> Head(rs).at, n |-> k]>>

\* slice(k)
RECURSIVE DropRuns(_, _)
DropRuns(rs, k) ==
    IF k = 0 \/ rs = <<>> THEN rs
    ELSE IF Head(rs).n <= k THEN DropRuns(Tail(rs), k - Head(rs).n)
         ELSE <<[at |-> Head(rs).at + 2 * k, n |-> Head(rs).n - k]>>
              \o Tail(rs)

\* The decode loop on a chunk that starts at byte offset at of the stream:
\* sample i is read from the chunk's bytes 2i and 2i + 1; the last byte of a
\* chunk of odd length has no partner (getInt16 throws, the error is caught)
\* and the Float32Array has floor(length / 2) entries.
DecodeChunk(at, bytes) == [at |-> at, n |-> DecodedLength(bytes)]

\* (variant) the new samples are put in front of the buffered ones
CbAppendSwapped(buffer, run) == ConcatRuns(<<run>>, buffer)

\* the buffer after the new samples were added to it
CbAppend(buffer, run) == ConcatRuns(buffer, <<run>>)

\* the while loop of addPCM16
RECURSIVE CbSlice(_, _)
CbSlice(q, buffer) ==
    IF RunsLen(buffer) >= bufferSize
    THEN CbSlice(QueuePush(q, TakeRuns(buffer, bufferSize)),
                 DropRuns(buffer, bufferSize))
    ELSE [queue |-> q, buffer |-> buffer]

InitChunks ==
    /\ StreamerInit
    /\ ClientIdle
    /\ WavIdle
    /\ WorkletIdle
    /\ cbTotal \in StreamBytes
    /\ cbOffset = 0
    /\ cbBuffer = <<>>
    /\ cbQueue = <<>>
    /\ cbScheduled = <<>>
    /\ cbComplete = FALSE
    /\ cbChunks = <<>>

\* addPCM16 on the next bytes of the stream
CbSubmit(bytes) ==
    /\ ~cbComplete
    /\ bytes > 0
    /\ cbOffset + bytes <= cbTotal
    /\ LET sliced == CbSlice(cbQueue,
                       CbAppend(cbBuffer, DecodeChunk(cbOffset, bytes)))
       IN /\ cbQueue' = sliced.queue
          /\ cbBuffer' = sliced.buffer
    /\ cbOffset' = cbOffset + bytes
    /\ cbChunks' = Append(cbChunks, bytes)
    /\ UNCHANGED <<cbTotal, cbScheduled, cbComplete>>
    /\ UNCHANGED otherThanChunks

\* complete() once the whole stream was submitted
CbComplete ==
    /\ ~cbComplete
    /\ cbOffset = cbTotal
    /\ cbComplete' = TRUE
    /\ IF RunsLen(cbBuffer) > 0
       THEN cbQueue' = QueuePush(cbQueue, cbBuffer) /\ cbBuffer' = <<>>
       ELSE UNCHANGED <<cbQueue, cbBuffer>>
    /\ UNCHANGED <<cbTotal, cbOffset, cbScheduled, cbChunks>>
    /\ UNCHANGED otherThanChunks

\* one turn of the loop of scheduleNextBuffer: the head frame is started
CbSchedule ==
    /\ cbQueue # <<>>
    /\ cbScheduled' = ConcatRuns(cbScheduled, Head(cbQueue))
    /\ cbQueue' = Tail(cbQueue)
    /\ UNCHANGED <<cbTotal, cbOffset, cbBuffer, cbComplete, cbChunks>>
    /\ UNCHANGED otherThanChunks

NextChunks ==
    \/ \E bytes \in SplitBytes \cup {cbTotal - cbOffset} : CbSubmit(bytes)
    \/ CbComplete
    \/ CbSchedule

SpecChunks == InitChunks /\ [][NextChunks]_vars

\* the stream was submitted and completed and all its frames were started
CbDone == cbComplete /\ cbQueue = <<>>

\* every chunk submitted had an even number of bytes
CbAllEven == \A i \in DOMAIN cbChunks : cbChunks[i] % 2 = 0

\* what submitting the stream as one chunk gets started
CbWhole == AppendRun(<<>>, DecodeChunk(0, cbTotal))

\* C11 as stated: however the bytes of the stream are cut into chunks, the
\* samples of the frames started are those that the whole stream decodes to.
C11_SplitIndependent == CbDone => cbScheduled = CbWhole

\* C11 amended: the same, for the cuts that fall on sample boundaries (every
\* chunk of even length).
C11_EvenSplitIndependent == (CbDone /\ CbAllEven) => cbScheduled = CbWhole

\* a stream cut into several even chunks, not at a frame boundary, is done
C11_Witness ==
    /\ CbDone
    /\ CbAllEven
    /\ Len(cbChunks) >= 3
    /\ \E i \in DOMAIN cbChunks : cbChunks[i] % (2 * bufferSize) # 0

\* a step that is a call of addPCM16
AddStep == calls'.add = calls.add + 1

\* C12: when addPCM16 returns, the processing buffer holds fewer samples than
\* one frame, and every frame the call has enqueued (still queued, or
\* already started by the call) has exactly bufferSize samples.
C12_BufferBelowFrameSize ==
    [][AddStep =>
        /\ processingBuffer'.len < bufferSize
        /\ \A i \in DOMAIN audioQueue' :
              (\A j \in DOMAIN audioQueue : audioQueue[j] # audioQueue'[i])
                  => audioQueue'[i].len = bufferSize
        /\ \A src \in sources' :
              (/\ \A old \in sources : old.id # src.id
               /\ \A j \in DOMAIN audioQueue : audioQueue[j].first # src.id)
                  => src.len = bufferSize]_vars

\* submits have left frames in the queue and a remainder in the buffer
C12_Witness ==
    /\ calls.add >= 2
    /\ calls.complete = 0
    /\ processingBuffer.len > 0
    /\ Len(audioQueue) > 0

\* frames sliced off so far in SpecChunks, as long as complete() was not called
CbEmitted == Len(cbQueue) + RunsLen(cbScheduled) \div bufferSize

\* C13 as stated: of three chunks of 5120 bytes the first and the second
\* emit no frame, the third emits exactly one and leaves 1280 samples.
C13_ScenarioA ==
    /\ cbChunks \in {<<5120>>, <<5120, 5120>>}
          => CbEmitted = 0 /\ RunsLen(cbBuffer) = 2560 * Len(cbChunks)
    /\ cbChunks = <<5120, 5120, 5120>>
          => CbEmitted = 1 /\ RunsLen(cbBuffer) = 1280

\* C13 amended: the third chunk emits exactly one frame and leaves the
\* processing buffer empty (3 * 2560 = 7680 samples are one frame).
C13_ScenarioAEmptyBuffer ==
    /\ cbChunks \in {<<5120>>, <<5120, 5120>>}
          => CbEmitted = 0 /\ RunsLen(cbBuffer) = 2560 * Len(cbChunks)
    /\ cbChunks = <<5120, 5120, 5120>>
          => CbEmitted = 1 /\ RunsLen(cbBuffer) = 0

\* the third chunk of scenario A was submitted and its frame is queued
C13_Witness ==
    cbChunks = <<5120, 5120, 5120>> /\ Len(cbQueue) = 1 /\ cbBuffer = <<>>

\* C18: once the stream is not playing (after stop() or after it drained)
\* neither the poll interval nor a one-shot re-arm timer is pending.
C18_TimersCancelledWhenNotPlaying ==
    ~isPlaying => (checkInterval = 0 /\ timers = <<>>)

\* a step that is a call of resume()
ResumeCallStep == calls'.resume = calls.resume + 1

\* a step in which a resume() call runs to its end
ResumeResolveStep ==
    \/ ResumeCallStep /\ ctxState = "running"
    \/ resumePending > 0 /\ resumePending' = 0 /\ resumeOutcome' = "resolved"

\* a step in which context.resume() fails: the device stays suspended
ResumeRejectStep ==
    resumePending > 0 /\ resumePending' = 0 /\ ctxState' = "suspended"

\* C19: a resume() call on a suspended device leaves the completion flag and
\* the cursor alone; when the call runs to its end the device is not
\* suspended, the flag is cleared, the cursor is the clock plus
\* initialBufferTime and the gain is set to 1 at the clock.
C19_ResumeAwaitsDevice ==
    [][/\ (ResumeCallStep /\ ctxState = "suspended")
            => /\ UNCHANGED <<isStreamComplete, scheduledTime>>
               /\ ctxState' = "suspended"
       /\ ResumeResolveStep
            => /\ ctxState' = "running"
               /\ isStreamComplete' = FALSE
               /\ scheduledTime' = currentTime' + initialBufferTime
               /\ gainEvent' = [type |-> "setValue", value |-> 1,
                                after |-> 0]]_vars

\* a resume() that had to wait for a device suspended for some time has run
\* to its end after a stop()
C19_Witness ==
    /\ resumeOutcome = "resolved"
    /\ calls.stop >= 1
    /\ ctxState = "running"
    /\ currentTime < now
    /\ ~isStreamComplete
    /\ scheduledTime = currentTime + initialBufferTime
    /\ gainEvent.type = "setValue"

\* C20: when the device fails to resume, the awaiting resume() is rejected
\* and the completion flag, the cursor, the queue, the processing buffer and
\* the gain are as they were.
C20_RejectedResumeChangesNothing ==
    [][ResumeRejectStep
         => /\ resumeOutcome' = "rejected"
            /\ UNCHANGED <<isStreamComplete, scheduledTime, audioQueue,
                           processingBuffer, gainEvent, gainNode>>]_vars

\* a resume() after stop() was rejected: the stream is still complete and
\* the gain still ramps to 0
C20_Witness ==
    /\ resumeOutcome = "rejected"
    /\ ctxState = "suspended"
    /\ calls.stop >= 1
    /\ isStreamComplete
    /\ gainEvent.type = "linearRamp"

\* ------------------------------------------------------- createWavFromPcm
\* payloads are all byte sequences over PcmBytes of at most MaxPcmLen bytes
\* and the ramps of the lengths in LongLengths (36 + L carries into the
\* second, the third byte of the size fields)
MaxPcmLen == 5
PcmBytes == {0, 255}
LongLengths == {220, 300, 65500}

numChannels      == 1
bitsPerSample    == 16
clientSampleRate == 24000

\* 'R'.charCodeAt(0) and the like
RIFF == <<82, 73, 70, 70>>
WAVE == <<87, 65, 86, 69>>
FmtTag == <<102, 109, 116, 32>>
DataTag == <<100, 97, 116, 97>>

\* (variant) setUint32 without the littleEndian flag
U32BE(v) ==
    <<(v \div 16777216) % 256, (v \div 65536) % 256, (v \div 256) % 256,
      v % 256>>

\* view.setUint32(offset, v, true): the low 32 bits of v, low byte first
U32LE(v) ==
    <<v % 256, (v \div 256) % 256, (v \div 65536) % 256,
      (v \div 16777216) % 256>>

\* view.setUint16(offset, v, true)
U16LE(v) == <<v % 256, (v \div 256) % 256>>

\* the 44 bytes written through the DataView
WavHeader(length) ==
    LET byteRate   == clientSampleRate * numChannels * (bitsPerSample \div 8)
        blockAlign == numChannels * (bitsPerSample \div 8)
    IN RIFF \o U32LE(36 + length) \o WAVE \o FmtTag \o U32LE(16)
       \o U16LE(1) \o U16LE(numChannels) \o U32LE(clientSampleRate)
       \o U32LE(byteRate) \o U16LE(blockAlign) \o U16LE(bitsPerSample)
       \o DataTag \o U32LE(length)

createWavFromPcm(pcmData) == WavHeader(Len(pcmData)) \o pcmData

\* a payload of n bytes that differ from their neighbours
Ramp(n) == [i \in 1..n |-> (i * 7) % 256]

Payloads ==
    UNION {[1..n -> PcmBytes] : n \in 0..MaxPcmLen}
        \cup {Ramp(n) : n \in LongLengths}

InitWav ==
    /\ StreamerInit
    /\ ctxState = "running"
    /\ ChunksIdle
    /\ ClientIdle
    /\ WorkletIdle
    /\ wavPcm \in Payloads
    /\ wavOut = <<>>

\* createWavFromPcm(wavPcm) is called
WavEncode ==
    /\ wavOut = <<>>
    /\ wavOut' = createWavFromPcm(wavPcm)
    /\ UNCHANGED wavPcm
    /\ UNCHANGED otherThanWav

NextWav == WavEncode

SpecWav == InitWav /\ [][NextWav]_vars

\* the little-endian number in the n bytes of b from offset at (0-based)
RECURSIVE ReadLE(_, _, _)
ReadLE(b, at, n) ==
    IF n = 0 THEN 0 ELSE b[at + 1] + 256 * ReadLE(b, at + 1, n - 1)

\* C16: createWavFromPcm returns 44 + L bytes: a header whose bytes 4-7 read
\* 36 + L, with format-chunk size 16, format 1, 1 channel, rate 24000, byte
\* rate 48000, block align 2, 16 bits, bytes 40-43 reading L, and then the
\* payload as it was.
C16_WavLayout ==
    wavOut # <<>> =>
        LET L == Len(wavPcm)
        IN /\ Len(wavOut) = 44 + L
           /\ ReadLE(wavOut, 4, 4) = 36 + L
           /\ ReadLE(wavOut, 16, 4) = 16
           /\ ReadLE(wavOut, 20, 2) = 1
           /\ ReadLE(wavOut, 22, 2) = 1
           /\ ReadLE(wavOut, 24, 4) = 24000
           /\ ReadLE(wavOut, 28, 4) = 48000
           /\ ReadLE(wavOut, 32, 2) = 2
           /\ ReadLE(wavOut, 34, 2) = 16
           /\ ReadLE(wavOut, 40, 4) = L
           /\ SubSeq(wavOut, 45, 44 + L) = wavPcm

\* a payload whose size fields need more than one byte was encoded
C16_Witness ==
    /\ wavOut # <<>>
    /\ Len(wavPcm) >= 256
    /\ wavOut[5] # 0 /\ wavOut[6] # 0

\* --------------------------------------------------------------- addWorklet
MaxWorkletCalls == 4     \* calls of addWorklet

\* (variant) a name counts as registered once its node exists
AlreadyRegisteredWithNode(record, name) == record[name].node # 0

\* workletsRecord && workletsRecord[workletName]
AlreadyRegistered(record, name) == contextRegistered /\ record[name].present

\* some call for this name is awaiting addModule
Loading(name) == \E c \in workletPending : c.name = name

\* addWorklet(name, src, handler) up to its return or its await; the
\* handler is identified by the number of the call
addWorklet(name) ==
    /\ workletCalls < MaxWorkletCalls
    /\ workletCalls' = workletCalls + 1
    /\ LET handler == workletCalls + 1
       IN /\ registered' = registered \cup
                 {[name |-> name, handler |-> handler,
                   awaiting |-> Loading(name)]}
          /\ IF AlreadyRegistered(workletsRecord, name)
             THEN /\ workletsRecord' =
                       [workletsRecord EXCEPT
                          ![name].handlers = Append(@, handler)]
                  /\ UNCHANGED <<contextRegistered, workletPending>>
             ELSE /\ contextRegistered' = TRUE
                  /\ workletsRecord' =
                       [workletsRecord EXCEPT
                          ![name] = [present |-> TRUE,
                                     handlers |-> <<handler>>, node |-> 0]]
                  /\ workletPending' = workletPending \cup
                       {[name |-> name, handler |-> handler]}
    /\ UNCHANGED nodesCreated
    /\ UNCHANGED otherThanWorklet

\* addModule resolves: the call creates the node and stores it
ModuleLoaded(call) ==
    /\ call \in workletPending
    /\ workletPending' = workletPending \ {call}
    /\ nodesCreated' = [nodesCreated EXCEPT ![call.name] = @ + 1]
    /\ workletsRecord' = [workletsRecord EXCEPT ![call.name].node = call.handler]
    /\ UNCHANGED <<contextRegistered, registered, workletCalls>>
    /\ UNCHANGED otherThanWorklet

\* addModule rejects: the call throws at the await
ModuleFailed(call) ==
    /\ call \in workletPending
    /\ workletPending' = workletPending \ {call}
    /\ UNCHANGED <<contextRegistered, workletsRecord, nodesCreated,
                   registered, workletCalls>>
    /\ UNCHANGED otherThanWorklet

InitWorklet ==
    /\ StreamerInit
    /\ ctxState = "running"
    /\ ChunksIdle
    /\ ClientIdle
    /\ WavIdle
    /\ WorkletIdle

NextWorklet ==
    \/ \E name \in WorkletNames : addWorklet(name)
    \/ \E call \in workletPending : ModuleLoaded(call)
    \/ \E call \in workletPending : ModuleFailed(call)

SpecWorklet == InitWorklet /\ [][NextWorklet]_vars

\* C17: at most one node is ever created for a name, and every handler
\* registered under a name is in that name's handler list.
C17_OneNodePerName ==
    /\ \A n \in WorkletNames : nodesCreated[n] <= 1
    /\ \A r \in registered :
          \E i \in DOMAIN workletsRecord[r.name].handlers :
              workletsRecord[r.name].handlers[i] = r.handler

\* a name was registered again while its first registration was awaiting
\* addModule, and the module has loaded since
C17_Witness ==
    \E r \in registered :
        /\ r.awaiting
        /\ ~Loading(r.name)
        /\ nodesCreated[r.name] = 1
        /\ Len(workletsRecord[r.name].handlers) >= 2

\* ---------------------------------------------------- MultimodalLiveClient
MaxMessages == 4         \* messages received

\* milliseconds that may have passed since the previous reading of Date.now()
Elapsed == {0, 1}

\* Base64 text is a sequence of characters: 0..63 stand for the characters
\* of the alphabet (A = 0, B = 1, ...), Pad for '='.
Pad == 64

\* the audio fragments the server sends: "AAA=", "BBB=" and "QUJD"
Fragments == {<<0, 0, 0, Pad>>, <<1, 1, 1, Pad>>, <<16, 20, 9, 3>>}

\* the messages that are neither model-turn nor turn-complete
OtherKinds == {"toolcall", "toolcallcancellation", "setupcomplete",
               "interrupted"}

\* this.currentAudioBuffer.join('')
RECURSIVE Join(_)
Join(frags) ==
    IF frags = <<>> THEN <<>> ELSE Head(frags).data \o Join(Tail(frags))

\* atob, first step: a text whose length is a multiple of 4 loses one or
\* two '=' at its end
TrimPadding(text) ==
    LET n == Len(text)
    IN IF n > 0 /\ n % 4 = 0 /\ text[n] = Pad
       THEN IF text[n - 1] = Pad THEN SubSeq(text, 1, n - 2)
            ELSE SubSeq(text, 1, n - 1)
       ELSE text

\* atob, last step: four characters give three bytes, a rest of three gives
\* two, a rest of two gives one
RECURSIVE DecodeSextets(_)
DecodeSextets(text) ==
    IF Len(text) < 2 THEN <<>>
    ELSE IF Len(text) = 2
    THEN <<text[1] * 4 + text[2] \div 16>>
    ELSE IF Len(text) = 3
    THEN <<text[1] * 4 + text[2] \div 16,
           (text[2] % 16) * 16 + text[3] \div 4>>
    ELSE <<text[1] * 4 + text[2] \div 16,
           (text[2] % 16) * 16 + text[3] \div 4,
           (text[3] % 4) * 64 + text[4]>>
         \o DecodeSextets(SubSeq(text, 5, Len(text)))

\* atob(text): ok is FALSE when it throws (a length of 4k + 1, or a
\* character outside the alphabet, such as '=', left after the trimming)
atob(text) ==
    LET t == TrimPadding(text)
    IN IF Len(t) % 4 = 1 \/ \E i \in DOMAIN t : t[i] = Pad
       THEN [ok |-> FALSE, bytes |-> <<>>]
       ELSE [ok |-> TRUE, bytes |-> DecodeSextets(t)]

\* `a_xxiong59_test_${timestamp}.wav`
Filename(timestamp) == <<"a_xxiong59_test_", timestamp, ".wav">>

\* this.emit(ev), this.misty.uploadAudio(data, filename) and
\* this.misty.playAudio(filename), as entries of the log
Emitted(ev) == [ev |-> ev, filename |-> <<>>, data |-> <<>>]
UploadCall(data, filename) ==
    [ev |-> "upload", filename |-> filename, data |-> data]
\* (variant) the file is named by the timestamp taken at construction
PlayCallStale(filename) ==
    [ev |-> "play", filename |-> Filename(0), data |-> <<>>]

PlayCall(filename) == [ev |-> "play", filename |-> filename, data |-> <<>>]

\* the positions at which a receive() call that entered the delivery branch
\* is over: it threw at atob, an await rejected, or it ran to its end
Ended == {"threw", "uploadRejected", "playRejected", "done"}

\* a model-turn message with one audio part
ModelTurn(b64) ==
    /\ received < MaxMessages
    /\ received' = received + 1
    /\ currentAudioBuffer' =
           Append(currentAudioBuffer, [id |-> received + 1, data |-> b64])
    /\ UNCHANGED <<turns, clientLog, clientNow>>
    /\ UNCHANGED otherThanClient

\* a turn-complete message, up to the first await; Date.now() is read
\* when the accumulator is not empty
TurnComplete(elapsed) ==
    /\ received < MaxMessages
    /\ received' = received + 1
    /\ IF Len(currentAudioBuffer) > 0
       THEN LET combinedBase64 == Join(currentAudioBuffer)
                timestamp      == clientNow + elapsed
                filename       == Filename(timestamp)
                decoded        == atob(combinedBase64)
                call == [frags |-> currentAudioBuffer,
                         filename |-> filename, pcm |-> decoded.bytes,
                         pc |-> "upload"]
            IN /\ IF decoded.ok
                  THEN /\ turns' = Append(turns, call)
                       /\ clientLog' = clientLog \o
                            <<Emitted("turncomplete"),
                              UploadCall(createWavFromPcm(decoded.bytes),
                                         filename)>>
                  ELSE /\ turns' = Append(turns,
                                      [call EXCEPT !.pc = "threw"])
                       /\ clientLog' = Append(clientLog,
                                              Emitted("turncomplete"))
               /\ clientNow' = timestamp
       ELSE /\ elapsed = 0
            /\ clientLog' = Append(clientLog, Emitted("turncomplete"))
            /\ UNCHANGED <<turns, clientNow>>
    /\ UNCHANGED currentAudioBuffer
    /\ UNCHANGED otherThanClient

\* uploadAudio resolves: playAudio is called
UploadResolved(i) ==
    /\ turns[i].pc = "upload"
    /\ turns' = [turns EXCEPT ![i].pc = "play"]
    /\ clientLog' = Append(clientLog, PlayCall(turns[i].filename))
    /\ UNCHANGED <<currentAudioBuffer, clientNow, received>>
    /\ UNCHANGED otherThanClient

\* uploadAudio rejects (the response is not ok): receive() throws
UploadRejected(i) ==
    /\ turns[i].pc = "upload"
    /\ turns' = [turns EXCEPT ![i].pc = "uploadRejected"]
    /\ UNCHANGED <<currentAudioBuffer, clientLog, clientNow, received>>
    /\ UNCHANGED otherThanClient

\* playAudio resolves: audiopause is emitted and the accumulator is reset
PlayResolved(i) ==
    /\ turns[i].pc = "play"
    /\ turns' = [turns EXCEPT ![i].pc = "done"]
    /\ clientLog' = Append(clientLog, Emitted("audiopause"))
    /\ currentAudioBuffer' = <<>>
    /\ UNCHANGED <<clientNow, received>>
    /\ UNCHANGED otherThanClient

\* playAudio rejects: receive() throws
PlayRejected(i) ==
    /\ turns[i].pc = "play"
    /\ turns' = [turns EXCEPT ![i].pc = "playRejected"]
    /\ UNCHANGED <<currentAudioBuffer, clientLog, clientNow, received>>
    /\ UNCHANGED otherThanClient

\* (variant) such a message also clears the accumulator
OtherMessageClearing(kind) ==
    /\ received < MaxMessages
    /\ received' = received + 1
    /\ clientLog' = Append(clientLog, Emitted(kind))
    /\ currentAudioBuffer' = <<>>
    /\ UNCHANGED <<turns, clientNow>>
    /\ UNCHANGED otherThanClient

\* a tool-call, tool-call-cancellation, setup-complete or interrupted message
OtherMessage(kind) ==
    /\ received < MaxMessages
    /\ received' = received + 1
    /\ clientLog' = Append(clientLog, Emitted(kind))
    /\ UNCHANGED <<currentAudioBuffer, turns, clientNow>>
    /\ UNCHANGED otherThanClient

InitClient ==
    /\ StreamerInit
    /\ ctxState = "running"
    /\ ChunksIdle
    /\ ClientIdle
    /\ WavIdle
    /\ WorkletIdle

NextClient ==
    \/ \E b64 \in Fragments : ModelTurn(b64)
    \/ \E elapsed \in Elapsed : TurnComplete(elapsed)
    \/ \E i \in DOMAIN turns : UploadResolved(i)
    \/ \E i \in DOMAIN turns : UploadRejected(i)
    \/ \E i \in DOMAIN turns : PlayResolved(i)
    \/ \E i \in DOMAIN turns : PlayRejected(i)
    \/ \E kind \in OtherKinds : OtherMessage(kind)

SpecClient == InitClient /\ [][NextClient]_vars

\* C14: what a turn-complete with a non-empty accumulator hands to the
\* container encoder is the one decode of the joined fragments, and that
\* decode succeeds.
C14_JoinedDecodeSucceeds ==
    \A i \in DOMAIN turns :
        /\ turns[i].pc # "threw"
        /\ turns[i].pcm = atob(Join(turns[i].frags)).bytes

\* the receive() call of turn i comes to its end in this step
TurnHandlingEnds(i) ==
    /\ i \in DOMAIN turns'
    /\ turns'[i].pc \in Ended
    /\ i \in DOMAIN turns => turns[i].pc \notin Ended

\* C15: the handling of a turn-complete with a non-empty accumulator ends
\* with the accumulator empty, however decode, upload and play went, and
\* nothing else empties the accumulator.
C15_AccumulatorResetOnTurnComplete ==
    [][/\ (\E i \in DOMAIN turns' : TurnHandlingEnds(i))
            => currentAudioBuffer' = <<>>
       /\ (currentAudioBuffer # <<>> /\ currentAudioBuffer' = <<>>)
            => \E i \in DOMAIN turns' : TurnHandlingEnds(i)]_vars

\* ------------------------------------------------- claims C21 to C30
\* the frames of q were handed on in this step, in order: a prefix of q was
\* started as new sources and the rest is the queue after the step
HandedOn(q) ==
    \E n \in 0..Len(q) :
        /\ audioQueue' = SubSeq(q, n + 1, Len(q))
        /\ \A i \in 1..n :
              \E src \in sources' :
                  /\ src.id = q[i].first
                  /\ src.len = q[i].len
                  /\ \A old \in sources : old.id # src.id
        /\ \A src \in sources' :
              (\A old \in sources : old.id # src.id)
                  => \E i \in 1..n : q[i].first = src.id

\* C21: complete() with k > 0 samples in the processing buffer appends one
\* frame of these k samples behind the frames of the queue and empties the
\* buffer; with an empty buffer it appends no frame.
C21_CompleteFlushesBuffer ==
    [][CompleteStep =>
        IF processingBuffer.len > 0
        THEN /\ processingBuffer'.len = 0
             /\ HandedOn(Append(audioQueue, processingBuffer))
        ELSE /\ processingBuffer' = processingBuffer
             /\ HandedOn(audioQueue)
             /\ audioQueue' = audioQueue]_vars

\* complete() has put a short final frame behind a full frame of the queue
C21_Witness ==
    /\ calls.complete = 1
    /\ calls.stop = 0
    /\ processingBuffer.len = 0
    /\ Len(audioQueue) >= 2
    /\ Last(audioQueue).len < bufferSize
    /\ audioQueue[1].len = bufferSize

\* the sources started in this step
StartedNow == {src \in sources' : \A old \in sources : old.id # src.id}

\* C22: an addPCM16 on a stream that is not playing leaves it playing, with
\* the cursor set to the clock plus initialBufferTime before the first frame
\* is scheduled; an addPCM16 on a playing stream leaves the playing flag and
\* the cursor as they are and schedules nothing.
C22_SubmitStartsPlaying ==
    [][AddStep =>
        IF ~isPlaying
        THEN /\ isPlaying'
             /\ IF StartedNow = {}
                THEN scheduledTime' = currentTime + initialBufferTime
                ELSE \E first \in StartedNow :
                        /\ \A src \in StartedNow : first.id <= src.id
                        /\ first.cursor = currentTime + initialBufferTime
        ELSE /\ UNCHANGED <<isPlaying, scheduledTime>>
             /\ StartedNow = {}]_vars

\* ------------------------------------------------------------- liveness
\* The streamer fed and completed, never stopped, on a running device, with
\* its callbacks scheduled fairly: a one-shot timer that is due fires, the
\* poll interval ticks when it is due, and time passes (up to MaxClock).
LiveInit == Init /\ ctxState = "running"

LiveNext ==
    \/ \E bytes \in ChunkBytes : addPCM16(bytes)
    \/ complete
    \/ TimerWake
    \/ PollTick
    \/ \E src \in sources : SourceEnded(src)
    \/ \E d \in TickSteps : Tick(d)

\* a one-shot timer is due
TimerDue == timers # <<>> /\ Head(timers) <= now

\* TimerWake can change the state (its pass may re-arm the very timer it
\* consumed and change nothing)
TimerWakeEnabled ==
    /\ TimerDue
    /\ scheduleNextBuffer([Self EXCEPT !.timers = Tail(timers)]) # Self

\* the poll interval is due
PollDue == checkInterval # 0 /\ intervalDue <= now

\* weak fairness of TimerWake, PollTick and Tick, the enabling conditions
\* of the first two written out
Fairness ==
    /\ []<>(~TimerWakeEnabled) \/ []<><<TimerWake>>_vars
    /\ []<>(~PollDue) \/ []<><<PollTick>>_vars
    /\ WF_vars(\E d \in TickSteps : Tick(d))

LiveSpec == LiveInit /\ [][LiveNext]_vars /\ Fairness

\* the identities of the frames that can be enqueued
FrameIds == {k * (bufferSize \div 3) : k \in 0..(6 * MaxCalls - 1)}

\* frame f is in the playback queue
Queued(f) == \E i \in DOMAIN audioQueue : audioQueue[i].first = f

\* time within which the head frame of the queue comes into the lookahead
\* window and a timer or a poll tick is due
FrameWait == 2 * SCHEDULE_AHEAD_TIME

\* frame f is queued and the horizon leaves the clock time to advance as far
\* as the frames before f and f itself need
ClockLeft(f) ==
    \E i \in DOMAIN audioQueue :
        /\ audioQueue[i].first = f
        /\ now + FrameWait * i <= MaxClock

C24_CompletedStreamStops ==
    \A n \in 0..MaxCalls :
        (/\ audioQueue = <<>>
         /\ processingBuffer.len = 0
         /\ isStreamComplete
         /\ calls.complete >= 1
         /\ calls.add = n
         /\ now + FrameWait <= MaxClock)
            ~> ((~isPlaying /\ checkInterval = 0) \/ calls.add > n)

\* a step in which scheduleNextBuffer runs
PassStep ==
    \/ TimerWake
    \/ PollTick
    \/ AddStep /\ ~isPlaying
    \/ CompleteStep /\ processingBuffer.len > 0 /\ isPlaying

\* C25 (frames): every source was started on a cursor less than the clock
\* of that moment plus SCHEDULE_AHEAD_TIME, and so was its start time.
C25_StartedWithinLookahead ==
    \A src \in sources :
        /\ src.cursor < src.clock + SCHEDULE_AHEAD_TIME
        /\ src.start < src.clock + SCHEDULE_AHEAD_TIME

\* C25: a frame is scheduled only on a cursor within the lookahead window,
\* and a scheduler pass ends with the queue empty or the cursor at or
\* beyond the clock plus SCHEDULE_AHEAD_TIME.
C25_LookaheadBound ==
    [][/\ C25_StartedWithinLookahead'
       /\ PassStep =>
            \/ audioQueue' = <<>>
            \/ scheduledTime' >= currentTime' + SCHEDULE_AHEAD_TIME]_vars

\* a pass has started a frame and left one in the queue, out of the window
C25_Witness ==
    /\ sources # {}
    /\ timers # <<>>
    /\ Len(audioQueue) > 0
    /\ scheduledTime >= currentTime + SCHEDULE_AHEAD_TIME
    /\ currentTime > 0

\* a one-shot wake was armed in this step
ArmedNow ==
    IF TimerWake THEN Len(timers') >= Len(timers)
    ELSE Len(timers') > Len(timers)

\* C26: a scheduler pass arms a one-shot wake only when a frame is left in
\* the playback queue.
C26_WakeOnlyForQueuedFrames ==
    [][(PassStep /\ ArmedNow) => audioQueue' # <<>>]_vars

\* C30: a frame starts no earlier than the end of the frame scheduled before
\* it, when no stop() came between the two.
C30_NoOverlap ==
    \A src \in sources :
        \A before \in sources :
            (before.id = src.prev /\ before.epoch = src.epoch)
                => src.start >= before.start + before.dur

\* the receive() call of turn i passes from position from to position to
Moves(i, from, to) ==
    /\ i \in DOMAIN turns
    /\ turns[i].pc = from
    /\ turns'[i].pc = to

\* the entries the log gains in this step
Gained == SubSeq(clientLog', Len(clientLog) + 1, Len(clientLog'))

\* C27: the delivery branch emits turncomplete and then uploads; play is
\* requested when the upload has resolved, under the filename of the upload;
\* audiopause is emitted when play has resolved, and only then is the
\* accumulator reset.
C27_DeliveryOrder ==
    [][/\ \A i \in DOMAIN turns' :
            /\ (i \notin DOMAIN turns /\ turns'[i].pc = "upload")
                  => /\ Gained = <<Emitted("turncomplete"),
                                   UploadCall(createWavFromPcm(turns'[i].pcm),
                                              turns'[i].filename)>>
                     /\ currentAudioBuffer' = currentAudioBuffer
            /\ Moves(i, "upload", "play")
                  => /\ Gained = <<PlayCall(turns[i].filename)>>
                     /\ \E k \in DOMAIN clientLog :
                           /\ clientLog[k].ev = "upload"
                           /\ clientLog[k].filename = Gained[1].filename
                     /\ currentAudioBuffer' = currentAudioBuffer
            /\ Moves(i, "play", "done")
                  => /\ Gained = <<Emitted("audiopause")>>
                     /\ currentAudioBuffer' = <<>>
       /\ \A k \in DOMAIN Gained :
            /\ Gained[k].ev = "play"
                  => \E i \in DOMAIN turns : Moves(i, "upload", "play")
            /\ Gained[k].ev = "audiopause"
                  => \E i \in DOMAIN turns : Moves(i, "play", "done")
       /\ (currentAudioBuffer # <<>> /\ currentAudioBuffer' = <<>>)
            => \E i \in DOMAIN turns : Moves(i, "play", "done")]_vars

\* a delivery under a filename of a later millisecond has run to its end
C27_Witness ==
    /\ \E i \in DOMAIN turns :
          turns[i].pc = "done" /\ turns[i].filename = Filename(1)
    /\ Last(clientLog).ev = "audiopause"
    /\ currentAudioBuffer = <<>>

\* a step in which a message is received
MessageStep == received' = received + 1

FragIds(i) == {turns[i].frags[k].id : k \in DOMAIN turns[i].frags}

\* no fragment went into two containers
NoDouble ==
    \A i \in DOMAIN turns : \A j \in DOMAIN turns :
        i < j => FragIds(i) \cap FragIds(j) = {}

\* C29: a fragment leaves the accumulator only into a container, and no
\* fragment goes into two containers.
C29_FragmentDeliveredOnce ==
    [][/\ \A k \in DOMAIN currentAudioBuffer :
            (\A m \in DOMAIN currentAudioBuffer' :
                 currentAudioBuffer'[m].id # currentAudioBuffer[k].id)
               => \E i \in DOMAIN turns' :
                     /\ turns'[i].pc # "threw"
                     /\ \E m \in DOMAIN turns'[i].frags :
                           turns'[i].frags[m].id = currentAudioBuffer[k].id
       /\ NoDouble']_vars

\* C31: at most one one-shot re-arm timer is pending.
C31_OneTimerPending == Len(timers) <= 1

\* C32: a source started after a stop() is not connected to the gain node
\* that the delayed replacement armed by that stop() tears down.  Gain nodes
\* are numbered in the order of their creation and the k-th stop() tears down
\* node k, so a source started after at least as many stop() calls as the
\* number of its node was connected to a node whose teardown was pending.
C32_FrameNotOnTornDownGain ==
    \A src \in sources :
        src.epoch >= src.gain => src.gain \notin disconnectedGains

\* C33: a non-empty queue or processing buffer implies the playing flag.
C33_PendingAudioImpliesPlaying ==
    (audioQueue # <<>> \/ processingBuffer.len > 0) => isPlaying

\* some time after a stop() that no resume() followed, audio is pending in
\* both the queue and the processing buffer, and the stream is playing
C33_Witness ==
    /\ calls.stop >= 1
    /\ isStreamComplete
    /\ processingBuffer.len > 0
    /\ audioQueue # <<>>
    /\ isPlaying
    /\ now > 0

====
